---- MODULE Spec2Model ----
(***************************************************************************)
(* A model of the adapter resilience layer: the retrying execution engine  *)
(* of BaseAsyncAdapter (admission queue, concurrency limiter, timeout      *)
(* race, backoff) and BaseSyncAdapter, the AdapterManager's priority       *)
(* registries and capability-probe dispatch, and the HttpAdapter request   *)
(* pipeline.                                                               *)
(*                                                                         *)
(* JavaScript runs one cooperative turn at a time: every action below is   *)
(* one turn (the code between two suspension points), so the interleavings *)
(* TLC explores are the interleavings of turns.                            *)
(***************************************************************************)
EXTENDS Integers, Sequences, FiniteSets, TLC

\* ------------------------------------------------------------------ bounds
\* Number of executeWithRetry calls made on the adapter under analysis.
MaxOps == 3
\* Number of adapters registered with the manager, both registries together.
MaxAdapters == 3
\* Length of the path part of the URLs and base URLs that are merged.
MaxPathLen == 2
\* Number of interceptors added to an HTTP client, its three chains together.
MaxInterceptors == 2

VARIABLES
    kind,               \* "async": a BaseAsyncAdapter, "sync": a BaseSyncAdapter
    config,             \* this.config, after the constructor's merge
    executionQueue,     \* BaseAsyncAdapter.executionQueue (ids of queued operations)
    activeExecutions,   \* BaseAsyncAdapter.activeExecutions
    ops,                \* one record per executeWithRetry call, in call order
    pendingDrains,      \* scheduled .finally(() => this.processQueue()) callbacks
    syncCall,           \* the last BaseSyncAdapter.executeWithRetry call
    observe,            \* whether the execute promises that lost the timeout race
                        \* are followed until they settle (fixed at the start)
    syncAdapters,       \* AdapterManager.syncAdapters
    asyncAdapters,      \* AdapterManager.asyncAdapters
    dispatch,           \* the last executeSync / executeAsync / executeAuto call
                        \* made on the registries as they are
    defaultConfig,      \* HttpAdapter.defaultConfig
    merged,             \* the last HttpAdapter.mergeConfig call and what it returned
    requestInterceptors,    \* HttpAdapter.requestInterceptors
    responseInterceptors,   \* HttpAdapter.responseInterceptors
    errorInterceptors,      \* HttpAdapter.errorInterceptors
    call                \* one HttpAdapter.request call: where it is, what it has seen

adapterVars == <<kind, config, executionQueue, activeExecutions, ops, pendingDrains, syncCall,
                 observe>>
managerVars == <<syncAdapters, asyncAdapters, dispatch>>
interceptorVars == <<requestInterceptors, responseInterceptors, errorInterceptors>>
httpVars == <<defaultConfig, merged, interceptorVars, call>>
vars == <<adapterVars, managerVars, httpVars>>

\* ------------------------------------------------------------ JS helpers
\* undefined, where a record is expected
Nil == [name |-> "undefined"]

\* The empty object {}
EmptyObject == [k \in {} |-> 0]

\* { key: v } when opt = {v}, {} when opt = {} (the caller left the key out)
Field(key, opt) == IF opt = {} THEN EmptyObject ELSE (key :> (CHOOSE v \in opt : TRUE))

\* { ...defaults, ...given }: the keys of both, the given value winning
Spread(defaults, given) ==
    [k \in (DOMAIN defaults) \cup (DOMAIN given) |->
        IF k \in DOMAIN given THEN given[k] ELSE defaults[k]]

\* x || d on numbers: 0 is falsy
OrDefault(x, d) == IF x = 0 THEN d ELSE x

\* Math.pow(2, n) for the exponents the model reaches
RECURSIVE Pow2(_)
Pow2(n) == IF n <= 0 THEN 1 ELSE 2 * Pow2(n - 1)

\* ------------------------------------------------------- values and errors
\* Inputs are opaque payloads, numbered; 0 stands for undefined.
\* An Error object. id tells the attempt that raised it (object identity).
Err(name, message, originalError, input, id) ==
    [name |-> name, message |-> message, originalError |-> originalError,
     input |-> input, id |-> id]

\* What execute(input) rejects with (or throws) on attempt k
ExecuteError(input, k) == Err("Error", "execute failed", Nil, input, k)

\* What execute(input) resolves to on attempt k
ExecuteResult(input, k) == [name |-> "Result", input |-> input, id |-> k]

\* new AsyncAdapterError('Request timeout', undefined, input)
RequestTimeout(input, k) == Err("AsyncAdapterError", "Request timeout", Nil, input, k)

\* new AsyncAdapterError('Execution queue is full')
QueueFull == Err("AsyncAdapterError", "Execution queue is full", Nil, 0, -1)

\* lastError!.message with lastError undefined
TypeErrorUndefined == Err("TypeError", "undefined is not an object", Nil, 0, -1)

\* -------------------------------------------------------- BaseAsyncAdapter
AsyncDefaults ==
    [timeout |-> 10000, retries |-> 3, concurrency |-> 5, queueSize |-> 100,
     backoff |-> "exponential", priority |-> 1]

\* The constructor: { ...defaults, ...config }
AsyncConstructor(given) == Spread(AsyncDefaults, given)

\* Configurations a caller passes to the constructor
AsyncGiven ==
    { Field("retries", r) @@ Field("concurrency", c) @@ Field("queueSize", q)
        @@ Field("backoff", b) @@ Field("timeout", t) :
        r \in {{}, {0}, {2}, {-1}},
        c \in {{1}, {2}},
        q \in {{1}, {2}},
        b \in {{}, {"linear"}},
        t \in {{}, {0}} }

\* const maxRetries = this.config.retries || 1
MaxRetries == OrDefault(config.retries, 1)

\* (this.config.concurrency || 5)
ConcurrencyLimit == OrDefault(config.concurrency, 5)

\* (this.config.queueSize || 100)
QueueCapacity == OrDefault(config.queueSize, 100)

\* The exponent and the factor off by one
BackoffOffByOne(attempt) ==
    IF config.backoff = "exponential"
    THEN 1000 * Pow2(attempt + 1)
    ELSE 1000 * attempt

calculateBackoffDelay(attempt) ==
    IF config.backoff = "exponential"
    THEN 1000 * Pow2(attempt)
    ELSE 1000 * (attempt + 1)

\* The state of one executeWithRetry call. st is where the call stands:
\*   "queued"    its queuedOperation waits in executionQueue
\*   "polling"   its queuedOperation waits in the 10 ms polling loop
\*   "running"   an attempt awaits execute (or the timeout race)
\*   "backoff"   the catch block awaits the backoff timer
\*   "resolved"  the caller's promise is resolved with result
\*   "rejected"  the caller's promise is rejected with result
\* admitted: the call entered executionQueue. attempt, lastError: the
\* locals of performExecuteWithRetry. execs, failures, lastOutcome, sleeps: history (execute invocations,
\* failed attempts, how the latest finished attempt ended, the backoff
\* delays slept). startedAt: history, the rank of the call's first execute
\* among the first executes of all calls (0 before it). abandoned: the
\* execute promises of the call that lost the timeout race and have not
\* settled (nothing cancels them), counted where observe is set.
NewOp(input) ==
    [input |-> input, st |-> "queued", admitted |-> TRUE, attempt |-> 0,
     lastError |-> Nil, result |-> Nil,
     execs |-> 0, failures |-> 0, lastOutcome |-> "none", sleeps |-> <<>>,
     startedAt |-> 0, abandoned |-> 0]

RejectedOp(input) ==
    [NewOp(input) EXCEPT !.st = "rejected", !.admitted = FALSE, !.result = QueueFull]

\* new AsyncAdapterError(`... after ${maxRetries} attempts ...`, lastError, input)
RetriesExhausted(lastError, input) ==
    Err("AsyncAdapterError", "failed after attempts", lastError, input, -1)

\* What the adapter's state becomes: the fields a turn may change. drains
\* counts the operation().finally(() => this.processQueue()) callbacks that
\* are scheduled and have not run: an operation schedules one when it settles.
St(q, act, os, d) == [queue |-> q, active |-> act, ops |-> os, drains |-> d]

\* finally { this.activeExecutions--; }
NoDecrement(s) == s
DecrementTwice(s) == [s EXCEPT !.active = @ - 2]
FinallyDecrement(s) == [s EXCEPT !.active = @ - 1]

\* lastError = error, but only the first error is kept
KeepFirstError(op, error) == IF op.lastError = Nil THEN error ELSE op.lastError

\* The catch block chooses the error it keeps
CaughtError(op, error) == error

\* The failure of the last attempt without the drain that follows it
AttemptFailedNoDrain(s, i, error, outcome) ==
    LET op == s.ops[i]
        caught == [op EXCEPT !.lastError = CaughtError(op, error),
                             !.failures = @ + 1,
                             !.lastOutcome = outcome,
                             !.abandoned = IF observe /\ outcome = "timeout" THEN @ + 1 ELSE @]
    IN  IF op.attempt < MaxRetries - 1
        THEN St(s.queue, s.active,
                [s.ops EXCEPT ![i] =
                    [caught EXCEPT !.st = "backoff",
                                   !.sleeps = Append(@, calculateBackoffDelay(op.attempt))]],
                s.drains)
        ELSE FinallyDecrement(
                St(s.queue, s.active,
                   [s.ops EXCEPT ![i] =
                       [caught EXCEPT !.st = "rejected",
                                      !.result = RetriesExhausted(caught.lastError, op.input)]],
                   s.drains))

\* The slot given back before the backoff sleep instead of after it
AttemptFailedReleasesSlot(s, i, error, outcome) ==
    LET op == s.ops[i]
        caught == [op EXCEPT !.lastError = CaughtError(op, error),
                             !.failures = @ + 1,
                             !.lastOutcome = outcome,
                             !.abandoned = IF observe /\ outcome = "timeout" THEN @ + 1 ELSE @]
    IN  IF op.attempt < MaxRetries - 1
        THEN FinallyDecrement(
                St(s.queue, s.active,
                   [s.ops EXCEPT ![i] =
                       [caught EXCEPT !.st = "backoff",
                                      !.sleeps = Append(@, calculateBackoffDelay(op.attempt))]],
                   s.drains))
        ELSE FinallyDecrement(
                St(s.queue, s.active,
                   [s.ops EXCEPT ![i] =
                       [caught EXCEPT !.st = "rejected",
                                      !.result = RetriesExhausted(caught.lastError, op.input)]],
                   s.drains + 1))

\* catch (error) { ... } finally { activeExecutions-- } of attempt
\* os[i].attempt, and the throw after the loop when that was the last one
AttemptFailed(s, i, error, outcome) ==
    LET op == s.ops[i]
        caught == [op EXCEPT !.lastError = CaughtError(op, error),
                             !.failures = @ + 1,
                             !.lastOutcome = outcome,
                             !.abandoned = IF observe /\ outcome = "timeout" THEN @ + 1 ELSE @]
    IN  IF op.attempt < MaxRetries - 1
        THEN St(s.queue, s.active,
                [s.ops EXCEPT ![i] =
                    [caught EXCEPT !.st = "backoff",
                                   !.sleeps = Append(@, calculateBackoffDelay(op.attempt))]],
                s.drains)
        ELSE FinallyDecrement(
                St(s.queue, s.active,
                   [s.ops EXCEPT ![i] =
                       [caught EXCEPT !.st = "rejected",
                                      !.result = RetriesExhausted(caught.lastError, op.input)]],
                   s.drains + 1))

\* One iteration of the loop up to its await: activeExecutions++, the
\* timeout promise, execute(input). throws: execute throws synchronously.
StartAttempt(s, i, k, throws) ==
    LET rank == Cardinality({j \in DOMAIN s.ops : s.ops[j].startedAt > 0}) + 1
        started == St(s.queue, s.active + 1,
                      [s.ops EXCEPT ![i] = [@ EXCEPT !.st = "running", !.attempt = k,
                                                     !.execs = @ + 1,
                                                     !.startedAt = IF k = 0 THEN rank ELSE @]],
                      s.drains)
    IN  IF throws
        THEN AttemptFailed(started, i, ExecuteError(s.ops[i].input, k), "fail")
        ELSE started

\* for (let attempt = 0; attempt < maxRetries; attempt++)
LoopRuns(k) == k < MaxRetries

\* performExecuteWithRetry(input) up to its first await
performExecuteWithRetry(s, i, throws) ==
    IF LoopRuns(0)
    THEN StartAttempt(s, i, 0, throws)
    ELSE St(s.queue, s.active,
            [s.ops EXCEPT ![i] = [@ EXCEPT !.st = "rejected",
                                           !.result = TypeErrorUndefined]],
            s.drains + 1)

\* queuedOperation(): the polling loop, then operation()
queuedOperation(s, i, throws) ==
    IF s.active >= ConcurrencyLimit
    THEN St(s.queue, s.active, [s.ops EXCEPT ![i] = [@ EXCEPT !.st = "polling"]], s.drains)
    ELSE performExecuteWithRetry(s, i, throws)

\* One slot is always left unused
NoSlotButOne(s) == s.queue = <<>> \/ s.active + 1 >= ConcurrencyLimit

\* The guard of processQueue: nothing to start, or no free slot
NoSlot(s) == s.queue = <<>> \/ s.active >= ConcurrencyLimit

\* The queue served from its tail
ProcessQueueLifo(s, throws) ==
    IF NoSlot(s)
    THEN s
    ELSE queuedOperation(St(SubSeq(s.queue, 1, Len(s.queue) - 1), s.active, s.ops, s.drains),
                         s.queue[Len(s.queue)], throws)

\* processQueue(): shift the head of the queue and call it
processQueue(s, throws) ==
    IF NoSlot(s)
    THEN s
    ELSE queuedOperation(St(Tail(s.queue), s.active, s.ops, s.drains), Head(s.queue), throws)

\* The capacity test with > for >=
QueueOverFull == Len(executionQueue) > QueueCapacity

\* if (this.executionQueue.length >= (this.config.queueSize || 100))
QueueIsFull == Len(executionQueue) >= QueueCapacity

Now == St(executionQueue, activeExecutions, ops, pendingDrains)

Becomes(s) ==
    /\ executionQueue' = s.queue
    /\ activeExecutions' = s.active
    /\ ops' = s.ops
    /\ pendingDrains' = s.drains

\* executeWithRetry(input) -> addToQueue: reject when full, else push and drain
ExecuteWithRetry(input, throws) ==
    /\ kind = "async"
    /\ Len(ops) < MaxOps
    /\ IF QueueIsFull
       THEN Becomes([Now EXCEPT !.ops = Append(ops, RejectedOp(input))])
       ELSE Becomes(processQueue(
                [Now EXCEPT !.queue = Append(executionQueue, Len(ops) + 1),
                            !.ops = Append(ops, NewOp(input))], throws))
    /\ UNCHANGED <<kind, config, syncCall, observe, managerVars, httpVars>>

\* execute resolves first: return result, finally { activeExecutions-- }
ExecuteResolves(i) ==
    /\ kind = "async"
    /\ i \in DOMAIN ops
    /\ ops[i].st = "running"
    /\ Becomes(FinallyDecrement(
            St(executionQueue, activeExecutions,
               [ops EXCEPT ![i] =
                   [@ EXCEPT !.st = "resolved",
                             !.result = ExecuteResult(ops[i].input, ops[i].attempt),
                             !.lastOutcome = "ok"]],
               pendingDrains + 1)))
    /\ UNCHANGED <<kind, config, syncCall, observe, managerVars, httpVars>>

\* execute rejects first
ExecuteRejects(i) ==
    /\ kind = "async"
    /\ i \in DOMAIN ops
    /\ ops[i].st = "running"
    /\ Becomes(AttemptFailed(Now, i, ExecuteError(ops[i].input, ops[i].attempt), "fail"))
    /\ UNCHANGED <<kind, config, syncCall, observe, managerVars, httpVars>>

\* The timeout timer fires first: the race rejects; execute is not cancelled
TimeoutFires(i) ==
    /\ kind = "async"
    /\ i \in DOMAIN ops
    /\ ops[i].st = "running"
    /\ config.timeout # 0
    /\ Becomes(AttemptFailed(Now, i, RequestTimeout(ops[i].input, ops[i].attempt), "timeout"))
    /\ UNCHANGED <<kind, config, syncCall, observe, managerVars, httpVars>>

\* An execute promise that lost the timeout race settles: nobody listens
AbandonedSettles(i) ==
    /\ kind = "async"
    /\ i \in DOMAIN ops
    /\ ops[i].abandoned > 0
    /\ Becomes([Now EXCEPT !.ops[i].abandoned = @ - 1])
    /\ UNCHANGED <<kind, config, syncCall, observe, managerVars, httpVars>>

\* The backoff timer fires: finally { activeExecutions-- }, then the next
\* iteration of the loop, in the same turn
BackoffElapses(i, throws) ==
    /\ kind = "async"
    /\ i \in DOMAIN ops
    /\ ops[i].st = "backoff"
    /\ Becomes(StartAttempt(FinallyDecrement(Now), i, ops[i].attempt + 1, throws))
    /\ UNCHANGED <<kind, config, syncCall, observe, managerVars, httpVars>>

\* A scheduled .finally(() => this.processQueue()) callback runs
Drain(throws) ==
    /\ kind = "async"
    /\ pendingDrains > 0
    /\ Becomes(processQueue([Now EXCEPT !.drains = pendingDrains - 1], throws))
    /\ UNCHANGED <<kind, config, syncCall, observe, managerVars, httpVars>>

\* The payload of the next executeWithRetry call: the n-th call passes n
NextInputs == {Len(ops) + 1}

\* ---------------------------------------------------------- BaseSyncAdapter
SyncDefaults == [retries |-> 1, maxExecutionTime |-> 5000, priority |-> 1]

\* The constructor: { ...defaults, ...config }
SyncConstructor(given) == Spread(SyncDefaults, given)

SyncGiven ==
    { Field("retries", r) @@ Field("maxExecutionTime", m) :
        r \in {{}, {0}, {2}, {3}, {-1}},
        m \in {{}, {0}} }

\* What one call of execute does: it returns after time ms, or throws
ExecuteOutcomes ==
    { [returns |-> TRUE, time |-> 1], [returns |-> TRUE, time |-> 6000],
      [returns |-> FALSE, time |-> 1] }

\* new SyncAdapterError(`Execution time ...ms exceeded maximum ...ms`, undefined, input)
ExecutionTimeExceeded(input, k) ==
    Err("SyncAdapterError", "Execution time exceeded maximum", Nil, input, k)

\* new SyncAdapterError(`Sync adapter failed after ...`, lastError, input)
SyncRetriesExhausted(lastError, input) ==
    Err("SyncAdapterError", "failed after attempts", lastError, input, -1)

\* this.config.maxExecutionTime && executionTime > this.config.maxExecutionTime
TooSlow(time) == config.maxExecutionTime # 0 /\ time > config.maxExecutionTime

\* if (attempt === maxRetries - 1): the catch block rethrows, wrapped
IsLastAttempt(attempt) == attempt = MaxRetries - 1

\* The loop of BaseSyncAdapter.executeWithRetry from iteration attempt on.
\* outcomes[k + 1] is what execute does when it is called in iteration k.
RECURSIVE SyncLoop(_, _, _, _, _)
SyncLoop(input, outcomes, attempt, lastError, execs) ==
    IF ~ LoopRuns(attempt)
    THEN [threw |-> TRUE, value |-> lastError, execs |-> execs]
    ELSE LET o == outcomes[attempt + 1]
             error == IF o.returns
                      THEN ExecutionTimeExceeded(input, attempt)
                      ELSE ExecuteError(input, attempt)
         IN  IF o.returns /\ ~ TooSlow(o.time)
             THEN [threw |-> FALSE, value |-> ExecuteResult(input, attempt),
                   execs |-> execs + 1]
             ELSE IF IsLastAttempt(attempt)
                  THEN [threw |-> TRUE, value |-> SyncRetriesExhausted(error, input),
                        execs |-> execs + 1]
                  ELSE SyncLoop(input, outcomes, attempt + 1, error, execs + 1)

\* The iterations the loop can reach
SyncAttempts == 1..(IF MaxRetries > 0 THEN MaxRetries ELSE 0)

\* BaseSyncAdapter.executeWithRetry(input): one synchronous call
SyncExecuteWithRetry(input, outcomes) ==
    /\ kind = "sync"
    /\ syncCall' = [called |-> TRUE, input |-> input, outcomes |-> outcomes,
                    outcome |-> SyncLoop(input, outcomes, 0, Nil, 0)]
    /\ UNCHANGED <<kind, config, executionQueue, activeExecutions, ops, pendingDrains,
                   observe, managerVars, httpVars>>

NoSyncCall == [called |-> FALSE]

InitSync ==
    /\ kind = "sync"
    /\ config \in {SyncConstructor(g) : g \in SyncGiven}
    /\ executionQueue = <<>>
    /\ activeExecutions = 0
    /\ ops = <<>>
    /\ pendingDrains = 0
    /\ syncCall = NoSyncCall
    /\ observe = FALSE

InitAsync ==
    /\ kind = "async"
    /\ config \in {AsyncConstructor(g) : g \in AsyncGiven}
    /\ executionQueue = <<>>
    /\ activeExecutions = 0
    /\ ops = <<>>
    /\ pendingDrains = 0
    /\ syncCall = NoSyncCall
    /\ observe = FALSE

NoDispatch == [entry |-> "none"]

\* new AdapterManager()
ManagerIdle ==
    /\ syncAdapters = <<>>
    /\ asyncAdapters = <<>>
    /\ dispatch = NoDispatch

\* The adapter classes, when the manager or the HTTP client is analysed
AdapterIdle == InitSync /\ config = SyncConstructor(EmptyObject)

\* -------------------------------------------------------------- HttpAdapter
\* Strings are sequences of characters.
Http == <<"h", "t", "t", "p", ":", "/", "/">>
Https == <<"h", "t", "t", "p", "s", ":", "/", "/">>
Slash == <<"/">>

\* s.startsWith(prefix), s.endsWith(suffix)
StartsWith(s, prefix) ==
    Len(s) >= Len(prefix) /\ SubSeq(s, 1, Len(prefix)) = prefix
EndsWith(s, suffix) ==
    Len(s) >= Len(suffix) /\ SubSeq(s, Len(s) - Len(suffix) + 1, Len(s)) = suffix

\* config.key || fallback, for a key the object may lack (strings: '' is falsy)
StringOr(object, key, fallback) ==
    IF key \in DOMAIN object /\ object[key] # <<>> THEN object[key] ELSE fallback

\* buildUrl(url, baseURL); an undefined baseURL is the empty string here,
\* the two are told apart nowhere (!baseURL)
buildUrl(url, baseURL) ==
    IF StartsWith(url, Http) \/ StartsWith(url, Https)
    THEN url
    ELSE IF baseURL = <<>>
         THEN url
         ELSE LET base == IF EndsWith(baseURL, Slash)
                          THEN SubSeq(baseURL, 1, Len(baseURL) - 1)
                          ELSE baseURL
                  path == IF StartsWith(url, Slash) THEN url ELSE Slash \o url
              IN  base \o path

\* The headers of an object that may have none
HeadersOf(object) == IF "headers" \in DOMAIN object THEN object.headers ELSE EmptyObject

\* mergeConfig(config): { ...defaultConfig, ...config, url, headers }
mergeConfig(requestConfig) ==
    LET url == buildUrl(StringOr(requestConfig, "url", <<>>),
                        StringOr(requestConfig, "baseURL", StringOr(defaultConfig, "baseURL", <<>>)))
    IN  Spread(Spread(defaultConfig, requestConfig),
               [url |-> url,
                headers |-> Spread(HeadersOf(defaultConfig), HeadersOf(requestConfig))])

\* The defaults of the HttpAdapter constructor. A number that may be
\* undefined is a set: {} is undefined, {n} is n.
HttpDefaults ==
    [timeout |-> {10000}, retries |-> {3}, validateStatus |-> "default",
     headers |-> [contentType |-> "application/json"]]

\* The constructor: { ...defaults, ...config }
HttpConstructor(given) == Spread(HttpDefaults, given)

\* { key: value }, or {} for the empty string (the caller left the key out)
StringField(key, value) == IF value = <<>> THEN EmptyObject ELSE (key :> value)

NoMerge == [called |-> FALSE]

\* value || fallback for a number that may be undefined (0 is falsy)
Truthy(n) == n # {} /\ n # {0}
Val(n) == CHOOSE v \in n : TRUE
NumberOr(n, fallback) == IF Truthy(n) THEN Val(n) ELSE fallback

\* new HttpError(message, config, request, response, code, status); the
\* response, the code and the status may be undefined ({}).
HttpError(message, requestConfig, response, code, status) ==
    [name |-> "HttpError", message |-> message, config |-> requestConfig,
     response |-> response, code |-> code, status |-> status]

fromResponse(response, requestConfig) ==
    HttpError("Request failed with status", requestConfig, {response},
              {"REQUEST_FAILED"}, {response.status})
fromNetworkError(requestConfig) ==
    HttpError("Network Error", requestConfig, {}, {"NETWORK_ERROR"}, {})
fromTimeout(requestConfig) ==
    HttpError("Request timeout", requestConfig, {}, {"TIMEOUT"}, {})
UrlRequired(requestConfig) == HttpError("URL is required", requestConfig, {}, {}, {})

\* A default validator that lets 300 pass
ValidateStatusOffByOne(validator, status) ==
    IF validator = "default"
    THEN status >= 200 /\ status <= 300
    ELSE status < 500

\* The status validators: the constructor's default and one a caller wrote
validateStatus(validator, status) ==
    IF validator = "default"
    THEN status >= 200 /\ status < 300
    ELSE status < 500

\* What an interceptor does. A request (response) interceptor returns its
\* argument with its own mark appended, or throws; an error interceptor
\* throws what it was given, returns a response of its own, or throws an
\* error of its own.
RequestInterceptorKinds == {"A", "B", "throws"}
ResponseInterceptorKinds == {"A", "B", "throws"}
ErrorInterceptorKinds == {"rethrow", "recover", "replace"}
InterceptorError == [name |-> "Error", message |-> "interceptor failed"]
ReplacedError == [name |-> "Error", message |-> "replaced"]
SubstituteResponse == [data |-> [parsedAs |-> "substitute"], status |-> 200]
MarksOf(object) == IF "marks" \in DOMAIN object THEN object.marks ELSE <<>>
Marked(object, mark) == Spread(object, [marks |-> Append(MarksOf(object), mark)])

\* A completion: a value returned or an error thrown
Returned(value) == [threw |-> FALSE, value |-> value]
Thrown(error) == [threw |-> TRUE, value |-> error]

\* The request interceptors applied last to first
RECURSIVE RequestInterceptorsDownFrom(_, _)
RequestInterceptorsDownFrom(finalConfig, k) ==
    IF k < 1
    THEN Returned(finalConfig)
    ELSE IF requestInterceptors[k] = "throws"
         THEN Thrown(InterceptorError)
         ELSE RequestInterceptorsDownFrom(Marked(finalConfig, requestInterceptors[k]), k - 1)
LastInterceptorFirst(requestConfig) ==
    RequestInterceptorsDownFrom(requestConfig, Len(requestInterceptors))

\* applyRequestInterceptors, from the k-th interceptor on
RECURSIVE RequestInterceptorsFrom(_, _)
RequestInterceptorsFrom(finalConfig, k) ==
    IF k > Len(requestInterceptors)
    THEN Returned(finalConfig)
    ELSE IF requestInterceptors[k] = "throws"
         THEN Thrown(InterceptorError)
         ELSE RequestInterceptorsFrom(Marked(finalConfig, requestInterceptors[k]), k + 1)
applyRequestInterceptors(requestConfig) == RequestInterceptorsFrom(requestConfig, 1)

\* applyResponseInterceptors, from the k-th interceptor on
RECURSIVE ResponseInterceptorsFrom(_, _)
ResponseInterceptorsFrom(finalResponse, k) ==
    IF k > Len(responseInterceptors)
    THEN Returned(finalResponse)
    ELSE IF responseInterceptors[k] = "throws"
         THEN Thrown(InterceptorError)
         ELSE ResponseInterceptorsFrom(Marked(finalResponse, responseInterceptors[k]), k + 1)
applyResponseInterceptors(response) == ResponseInterceptorsFrom(response, 1)

\* What fetch and the reading of the body can come to: a response with a
\* status, a content type and a body that reads or fails to read (json()
\* rejects on text that is no JSON), an abort, or another failure of fetch.
Statuses == {199, 200, 299, 300, 404, 500}
ContentTypes == {"application/json", "text/plain", "image/png"}
FetchOutcomes ==
    {[kind |-> "response", status |-> st, contentType |-> c, readable |-> TRUE] :
        st \in Statuses, c \in ContentTypes}
    \cup {[kind |-> "response", status |-> st, contentType |-> "application/json",
           readable |-> FALSE] : st \in {200, 404}}
    \cup {[kind |-> "abort"], [kind |-> "networkError"]}

\* The body as makeRequest reads it: json(), text() or blob() by content type
responseData(fetchResponse) ==
    IF fetchResponse.contentType = "application/json"
    THEN [parsedAs |-> "json"]
    ELSE IF fetchResponse.contentType = "text/plain"
         THEN [parsedAs |-> "text"]
         ELSE [parsedAs |-> "blob"]

\* makeRequest up to the fetch: a config without url is refused
MissingUrl(finalConfig) == StringOr(finalConfig, "url", <<>>) = <<>>

\* makeRequest from the settling of fetch on, for a request without
\* transformRequest / transformResponse. Whatever the try block throws that
\* is no HttpError becomes TIMEOUT (an AbortError) or NETWORK_ERROR.
makeRequest(finalConfig, fetched) ==
    IF fetched.kind = "abort"
    THEN Thrown(fromTimeout(finalConfig))
    ELSE IF fetched.kind = "networkError" \/ ~ fetched.readable
         THEN Thrown(fromNetworkError(finalConfig))
         ELSE LET response == [data |-> responseData(fetched), status |-> fetched.status,
                               config |-> finalConfig]
              IN  IF ~ validateStatus(finalConfig.validateStatus, response.status)
                  THEN Thrown(fromResponse(response, finalConfig))
                  ELSE Returned(response)

\* The loop of handleError over the error interceptors, from the k-th on
RECURSIVE ErrorInterceptorsFrom(_, _)
ErrorInterceptorsFrom(currentError, k) ==
    IF k > Len(errorInterceptors)
    THEN Thrown(currentError)
    ELSE IF errorInterceptors[k] = "recover"
         THEN Returned(SubstituteResponse)
         ELSE ErrorInterceptorsFrom(
                  IF errorInterceptors[k] = "replace" THEN ReplacedError ELSE currentError,
                  k + 1)

\* currentError.config?.retries && currentError.config.retries > 0
HasRetries(currentError) ==
    /\ "config" \in DOMAIN currentError
    /\ "retries" \in DOMAIN currentError.config
    /\ Truthy(currentError.config.retries)
    /\ Val(currentError.config.retries) > 0

\* Math.pow(2, exponent) * 1000
RetryDelay(exponent) ==
    IF exponent >= 0 THEN Pow2(exponent) * 1000 ELSE 1000 \div Pow2(0 - exponent)

\* handleError deciding on the error it was called with, whatever the error
\* interceptors raised
HandleErrorKeepsFirst(error) ==
    LET offered == ErrorInterceptorsFrom(error, 1)
    IN  IF ~ offered.threw
        THEN [kind |-> "return", value |-> offered.value, delay |-> 0]
        ELSE IF HasRetries(error)
             THEN LET retryConfig ==
                          Spread(error.config, [retries |-> {Val(error.config.retries) - 1}])
                  IN  [kind |-> "retry", value |-> retryConfig,
                       delay |-> RetryDelay(NumberOr(defaultConfig.retries, 3)
                                            - Val(retryConfig.retries))]
             ELSE [kind |-> "throw", value |-> error, delay |-> 0]

\* handleError(error): the response it returns, the error it throws, or the
\* config it sleeps on and submits again
handleError(error) ==
    LET offered == ErrorInterceptorsFrom(error, 1)
        currentError == offered.value
    IN  IF ~ offered.threw
        THEN [kind |-> "return", value |-> offered.value, delay |-> 0]
        ELSE IF HasRetries(currentError)
             THEN LET retryConfig ==
                          Spread(currentError.config,
                                 [retries |-> {Val(currentError.config.retries) - 1}])
                  IN  [kind |-> "retry", value |-> retryConfig,
                       delay |-> RetryDelay(NumberOr(defaultConfig.retries, 3)
                                            - Val(retryConfig.retries))]
             ELSE [kind |-> "throw", value |-> currentError, delay |-> 0]

\* The number of interceptors a loop over chain calls: all of them, or those
\* up to the first whose kind ends the loop
Invoked(chain, ending) ==
    LET enders == {k \in 1..Len(chain) : chain[k] \in ending}
    IN  IF enders = {} THEN Len(chain) ELSE CHOOSE k \in enders : \A j \in enders : k <= j

\* The errors the loop of handleError gives to the error interceptors, from
\* the k-th on
RECURSIVE OfferedFrom(_, _)
OfferedFrom(currentError, k) ==
    IF k > Len(errorInterceptors)
    THEN <<>>
    ELSE <<currentError>> \o
         (IF errorInterceptors[k] = "recover"
          THEN <<>>
          ELSE OfferedFrom(IF errorInterceptors[k] = "replace" THEN ReplacedError
                           ELSE currentError, k + 1))

\* A request call. stage: "transport" while fetch is out, "sleeping" before
\* a retry, "returned" / "thrown" when the caller has its outcome. sent is
\* the config makeRequest was given, fetched what fetch came to, made what
\* makeRequest came to, attempts the number of fetch calls so far.
\* first: the config the first fetch of the call was made with.
\* timerFired: the timeout callback of the latest pass has run; aborted: the
\* signal the caller supplied is aborted.
\* For a call made through execute(options): options, and executed, what
\* execute came to (Nil while it awaits request).
\* History of the latest pass through request(): submitted is the config it
\* was called with, ran the number of request and response interceptors it
\* called, failure the error its catch got and failedAt where that was
\* raised, offered the errors its error interceptors were given; passes
\* counts the passes.
NoCall == [stage |-> "idle"]
NewCall(requestConfig) ==
    [stage |-> "request", given |-> requestConfig, sent |-> Nil, fetched |-> Nil,
     made |-> Nil, retryConfig |-> Nil, delay |-> 0, attempts |-> 0, outcome |-> Nil,
     submitted |-> Nil, ran |-> [request |-> 0, response |-> 0], failure |-> Nil,
     failedAt |-> "none", offered |-> <<>>, passes |-> 0,
     options |-> Nil, executed |-> Nil, timerFired |-> FALSE, aborted |-> FALSE,
     first |-> Nil]

\* The catch of request(): the call after handleError(error)
Catch(c, error, at) ==
    LET handled == handleError(error)
        caught == [c EXCEPT !.failure = error, !.failedAt = at,
                            !.offered = OfferedFrom(error, 1)]
    IN  IF handled.kind = "return"
        THEN [caught EXCEPT !.stage = "returned", !.outcome = handled.value]
        ELSE IF handled.kind = "throw"
             THEN [caught EXCEPT !.stage = "thrown", !.outcome = handled.value]
             ELSE [caught EXCEPT !.stage = "sleeping", !.retryConfig = handled.value,
                                 !.delay = handled.delay]

\* request(config) up to the fetch
Submit(c, requestConfig) ==
    LET intercepted == applyRequestInterceptors(mergeConfig(requestConfig))
        pass == [c EXCEPT !.submitted = requestConfig, !.passes = @ + 1,
                          !.ran = [request |-> Invoked(requestInterceptors, {"throws"}),
                                   response |-> 0],
                          !.failure = Nil, !.failedAt = "none", !.offered = <<>>,
                          !.fetched = Nil, !.made = Nil, !.timerFired = FALSE]
    IN  IF intercepted.threw
        THEN Catch(pass, intercepted.value, "requestInterceptor")
        ELSE IF MissingUrl(intercepted.value)
             THEN Catch(pass, UrlRequired(intercepted.value), "makeRequest")
             ELSE [pass EXCEPT !.stage = "transport", !.sent = intercepted.value,
                               !.attempts = @ + 1,
                               !.first = IF c.attempts = 0 THEN intercepted.value ELSE @]

\* request(config) from the settling of fetch on
Settle(c, fetched) ==
    LET made == makeRequest(c.sent, fetched)
        seen == [c EXCEPT !.fetched = fetched, !.made = made]
    IN  IF made.threw
        THEN Catch(seen, made.value, "makeRequest")
        ELSE LET intercepted == applyResponseInterceptors(made.value)
                 ran == [seen EXCEPT !.ran.response =
                                        Invoked(responseInterceptors, {"throws"})]
             IN  IF intercepted.threw
                 THEN Catch(ran, intercepted.value, "responseInterceptor")
                 ELSE [ran EXCEPT !.stage = "returned", !.outcome = intercepted.value]

\* The configs clients are built with and requests are made with; among
\* the latter, a path to be joined to a base URL that names no host
HttpGiven ==
    {Field("retries", r) @@ Field("validateStatus", v) :
        r \in {{}, {{1}}}, v \in {{}, {"lt500"}}}
RequestConfigs ==
    {StringField("url", u) @@ Field("retries", r) @@ Field("validateStatus", v)
        @@ Field("signal", g) :
        u \in {<<>>, Https \o <<"a", "/", "v">>}, r \in {{}, {{0}}, {{2}}},
        v \in {{}, {"default"}}, g \in {{}, {"caller"}}}
    \cup {[url |-> <<"v">>, baseURL |-> <<"/", "b">>] @@ Field("retries", r) :
            r \in {{}, {{2}}}}

\* Interceptors are added before the client is used
Interceptors == Len(requestInterceptors) + Len(responseInterceptors) + Len(errorInterceptors)
CanAddInterceptor == call = NoCall /\ Interceptors < MaxInterceptors

addRequestInterceptor(interceptor) ==
    /\ CanAddInterceptor
    /\ requestInterceptors' = Append(requestInterceptors, interceptor)
    /\ UNCHANGED <<responseInterceptors, errorInterceptors, call, defaultConfig, merged,
                   adapterVars, managerVars>>

addResponseInterceptor(interceptor) ==
    /\ CanAddInterceptor
    /\ responseInterceptors' = Append(responseInterceptors, interceptor)
    /\ UNCHANGED <<requestInterceptors, errorInterceptors, call, defaultConfig, merged,
                   adapterVars, managerVars>>

addErrorInterceptor(interceptor) ==
    /\ CanAddInterceptor
    /\ errorInterceptors' = Append(errorInterceptors, interceptor)
    /\ UNCHANGED <<requestInterceptors, responseInterceptors, call, defaultConfig, merged,
                   adapterVars, managerVars>>

\* request(config): merge, request interceptors, and fetch is called
Request(requestConfig) ==
    /\ call = NoCall
    /\ call' = Submit(NewCall(requestConfig), requestConfig)
    /\ UNCHANGED <<interceptorVars, defaultConfig, merged, adapterVars, managerVars>>

\* signal || controller.signal: the request listens to the caller's signal
\* where there is one, and to the controller of the timer otherwise
HasSignal(finalConfig) == "signal" \in DOMAIN finalConfig

\* fetch settles. It rejects with an AbortError when the caller's signal is
\* or gets aborted (the abort of the timer is TimerFires).
FetchSettles(fetched) ==
    /\ call.stage = "transport"
    /\ fetched.kind = "abort" => HasSignal(call.sent)
    /\ call.aborted => fetched.kind = "abort"
    /\ call' = Settle([call EXCEPT !.aborted = (fetched.kind = "abort")], fetched)
    /\ UNCHANGED <<interceptorVars, defaultConfig, merged, adapterVars, managerVars>>

\* The callback of setTimeout: controller.abort(). The fetch rejects with an
\* AbortError if the request listens to the controller.
TimerFires ==
    /\ call.stage = "transport"
    /\ Truthy(call.sent.timeout)
    /\ ~ call.timerFired
    /\ LET fired == [call EXCEPT !.timerFired = TRUE]
       IN  call' = IF HasSignal(call.sent)
                   THEN fired
                   ELSE Settle(fired, [kind |-> "abort"])
    /\ UNCHANGED <<interceptorVars, defaultConfig, merged, adapterVars, managerVars>>

\* The sleep of handleError is over: request(retryConfig)
RetryDelayElapses ==
    /\ call.stage = "sleeping"
    /\ call' = Submit(call, call.retryConfig)
    /\ UNCHANGED <<interceptorVars, defaultConfig, merged, adapterVars, managerVars>>

\* The options execute is called with. data: undefined ({}) or a payload;
\* the validators, where supplied, accept whatever they are given ("any")
\* or nothing ("none").
ExecuteOptions ==
    {[endpoint |-> Https \o <<"a", "/", "v">>] @@ Field("data", d) @@ Field("retries", r)
        @@ Field("requestValidation", q) @@ Field("responseValidation", p) :
        d \in {{}, {{7}}}, r \in {{}, {{1}}},
        q \in {{}, {"any"}, {"none"}}, p \in {{}, {"any"}, {"none"}}}

\* options.key, undefined ({}) for a key that was left out
OptionOf(options, key) == IF key \in DOMAIN options THEN options[key] ELSE {}

\* validator(data)
Validates(validator, data) == validator = "any"

\* The config execute builds: retries and timeout are set to the options'
\* values, undefined included
ExecuteConfig(options) ==
    [url |-> options.endpoint, method |-> "GET", data |-> OptionOf(options, "data"),
     retries |-> OptionOf(options, "retries"), timeout |-> OptionOf(options, "timeout")]

\* options.validation?.request && options.data, and the validator says no
RequestRefused(options) ==
    /\ "requestValidation" \in DOMAIN options
    /\ Truthy(OptionOf(options, "data"))
    /\ ~ Validates(options.requestValidation, options.data)

\* options.validation?.response, and the validator says no
ResponseRefused(options, response) ==
    /\ "responseValidation" \in DOMAIN options
    /\ ~ Validates(options.responseValidation, response.data)

\* execute(options) up to its await of request(config)
Execute(options) ==
    /\ call = NoCall
    /\ LET requestConfig == ExecuteConfig(options)
       IN  call' =
            IF RequestRefused(options)
            THEN [NewCall(requestConfig) EXCEPT
                    !.options = options,
                    !.executed = Thrown(HttpError("Request validation failed", requestConfig,
                                                  {}, {}, {}))]
            ELSE [Submit(NewCall(requestConfig), requestConfig) EXCEPT !.options = options]
    /\ UNCHANGED <<interceptorVars, defaultConfig, merged, adapterVars, managerVars>>

\* execute(options) after request(config) has settled
ExecuteResumes ==
    /\ call # NoCall
    /\ call.options # Nil
    /\ call.executed = Nil
    /\ call.stage \in {"returned", "thrown"}
    /\ call' = [call EXCEPT !.executed =
            IF call.stage = "thrown"
            THEN Thrown(call.outcome)
            ELSE IF ResponseRefused(call.options, call.outcome)
                 THEN Thrown(HttpError("Response validation failed", call.given,
                                       {call.outcome}, {}, {}))
                 ELSE Returned(call.outcome.data)]
    /\ UNCHANGED <<interceptorVars, defaultConfig, merged, adapterVars, managerVars>>

\* A client without interceptors, used through execute
NextExecute ==
    \/ \E options \in ExecuteOptions : Execute(options)
    \/ \E fetched \in FetchOutcomes : FetchSettles(fetched)
    \/ RetryDelayElapses
    \/ ExecuteResumes

InitHttp ==
    /\ AdapterIdle
    /\ ManagerIdle
    /\ defaultConfig \in {HttpConstructor(given) : given \in HttpGiven}
    /\ merged = NoMerge
    /\ requestInterceptors = <<>>
    /\ responseInterceptors = <<>>
    /\ errorInterceptors = <<>>
    /\ call = NoCall

NextHttp ==
    \/ \E interceptor \in RequestInterceptorKinds : addRequestInterceptor(interceptor)
    \/ \E interceptor \in ResponseInterceptorKinds : addResponseInterceptor(interceptor)
    \/ \E interceptor \in ErrorInterceptorKinds : addErrorInterceptor(interceptor)
    \/ \E requestConfig \in RequestConfigs : Request(requestConfig)
    \/ \E fetched \in FetchOutcomes : FetchSettles(fetched)
    \/ TimerFires
    \/ RetryDelayElapses

SpecHttp == InitHttp /\ [][NextHttp]_vars

SpecExecute == InitHttp /\ [][NextExecute]_vars

\* The strings over "/" and "v" of length <= n
RECURSIVE PathsUpTo(_)
PathsUpTo(n) ==
    IF n = 0
    THEN {<<>>}
    ELSE LET shorter == PathsUpTo(n - 1)
         IN  shorter \cup {p \o <<c>> : p \in shorter, c \in {"/", "v"}}

\* Target URLs: relative, http:// and https://
Urls == {scheme \o p : scheme \in {<<>>, Http, Https}, p \in PathsUpTo(MaxPathLen)}

\* Base URLs: none (''), relative, and on a host
BaseUrls == {host \o p : host \in {<<>>, Https \o <<"a">>}, p \in PathsUpTo(MaxPathLen)}

\* A mergeConfig call; it reads nothing an earlier call wrote, so one call
\* for each client stands for them all.
MergeConfig(url, baseURL) ==
    /\ merged = NoMerge
    /\ LET given == StringField("url", url) @@ StringField("baseURL", baseURL)
       IN  merged' = [called |-> TRUE, config |-> given, out |-> mergeConfig(given)]
    /\ UNCHANGED <<defaultConfig, interceptorVars, call, adapterVars, managerVars>>

\* new HttpAdapter(), nothing asked of it
HttpIdle ==
    /\ defaultConfig = HttpConstructor(EmptyObject)
    /\ merged = NoMerge
    /\ requestInterceptors = <<>>
    /\ responseInterceptors = <<>>
    /\ errorInterceptors = <<>>
    /\ call = NoCall

InitUrl ==
    /\ AdapterIdle
    /\ ManagerIdle
    /\ defaultConfig \in {HttpConstructor(StringField("baseURL", b)) : b \in BaseUrls}
    /\ merged = NoMerge
    /\ requestInterceptors = <<>>
    /\ responseInterceptors = <<>>
    /\ errorInterceptors = <<>>
    /\ call = NoCall

NextUrl == \E url \in Urls, baseURL \in BaseUrls : MergeConfig(url, baseURL)

SpecUrl == InitUrl /\ [][NextUrl]_vars

\* ----------------------------------------------------------- AdapterManager
\* An adapter as the manager sees it. id numbers the adapters in the order
\* they were registered (object identity). config is the adapter's config
\* after its constructor's merge (priority defaults to 1). canHandle is what
\* canHandle(input) does: "true", "false" or "throws" (a rejected promise,
\* for an async adapter). succeeds tells whether the execution the manager
\* starts, executeWithRetry(input) if the adapter has one and execute(input)
\* otherwise, returns (resolves) or throws (rejects).
NewAdapter(id, priority, canHandle, succeeds) ==
    [id |-> id, config |-> Spread([priority |-> 1], Field("priority", priority)),
     canHandle |-> canHandle, succeeds |-> succeeds]

\* What the adapters do with the input of the dispatch
Behaviours ==
    { <<"false", FALSE>>, <<"throws", FALSE>>, <<"true", FALSE>>, <<"true", TRUE>> }

\* Priorities a caller configures: none, 0, 2
Priorities == {{}, {0}, {2}}

\* (a.config?.priority || 1)
PriorityOf(a) == OrDefault(a.config.priority, 1)

\* The comparator of sortAdaptersByPriority: negative puts a first
ComparePriority(a, b) == PriorityOf(b) - PriorityOf(a)

\* x put into the sorted sequence s behind every element that does not
\* compare after it
RECURSIVE InsertStable(_, _)
InsertStable(s, x) ==
    IF s = <<>>
    THEN <<x>>
    ELSE IF ComparePriority(Head(s), x) <= 0
         THEN <<Head(s)>> \o InsertStable(Tail(s), x)
         ELSE <<x>> \o s

\* adapters.sort(comparator): Array.prototype.sort is stable
RECURSIVE SortFrom(_, _)
SortFrom(sorted, rest) ==
    IF rest = <<>> THEN sorted ELSE SortFrom(InsertStable(sorted, Head(rest)), Tail(rest))

sortAdaptersByPriority(adapters) == SortFrom(<<>>, adapters)

Registered == Len(syncAdapters) + Len(asyncAdapters)

registerSync(adapter) ==
    /\ Registered < MaxAdapters
    /\ syncAdapters' = sortAdaptersByPriority(Append(syncAdapters, adapter))
    /\ dispatch' = NoDispatch
    /\ UNCHANGED <<asyncAdapters, adapterVars, httpVars>>

registerAsync(adapter) ==
    /\ Registered < MaxAdapters
    /\ asyncAdapters' = sortAdaptersByPriority(Append(asyncAdapters, adapter))
    /\ dispatch' = NoDispatch
    /\ UNCHANGED <<syncAdapters, adapterVars, httpVars>>

\* new AdapterError('No suitable <mode> adapter found', mode, undefined, input)
NoSuitableAdapter(mode, input) ==
    [name |-> "AdapterError", message |-> "No suitable adapter found",
     adapterType |-> mode, originalError |-> Nil, input |-> input]

\* What adapter a returns for input
AdapterResult(a, input) == [name |-> "Result", by |-> a.id, input |-> input]

Event(what, mode, a) == [what |-> what, mode |-> mode, id |-> a.id]

\* for-of leaves the loop at the first throw
Break(adapters, k) == Len(adapters) + 1

\* catch (error) { continue; }, and the end of an iteration whose adapter
\* cannot handle the input: the loop goes on with the next adapter
Continue(adapters, k) == k + 1

\* The loop of executeSync (mode "sync") and executeAsync (mode "async")
\* from the k-th adapter on. trace collects the calls made on adapters.
RECURSIVE DispatchFrom(_, _, _, _, _)
DispatchFrom(adapters, mode, input, k, trace) ==
    IF k > Len(adapters)
    THEN [ok |-> FALSE, value |-> NoSuitableAdapter(mode, input), trace |-> trace]
    ELSE LET a == adapters[k]
             probed == Append(trace, Event("canHandle", mode, a))
             executed == Append(probed, Event("execute", mode, a))
         IN  IF a.canHandle # "true"
             THEN DispatchFrom(adapters, mode, input, Continue(adapters, k), probed)
             ELSE IF a.succeeds
                  THEN [ok |-> TRUE, value |-> AdapterResult(a, input), trace |-> executed]
                  ELSE DispatchFrom(adapters, mode, input, Continue(adapters, k), executed)

Dispatched(entry, input, outcome) ==
    [entry |-> entry, input |-> input, ok |-> outcome.ok, value |-> outcome.value,
     trace |-> outcome.trace]

\* The registries are not modified while a dispatch is in progress: a
\* dispatch is one step of the manager.
executeSync(input) ==
    /\ dispatch' = Dispatched("executeSync", input,
                              DispatchFrom(syncAdapters, "sync", input, 1, <<>>))
    /\ UNCHANGED <<syncAdapters, asyncAdapters, adapterVars, httpVars>>

executeAsync(input) ==
    /\ dispatch' = Dispatched("executeAsync", input,
                              DispatchFrom(asyncAdapters, "async", input, 1, <<>>))
    /\ UNCHANGED <<syncAdapters, asyncAdapters, adapterVars, httpVars>>

\* The async dispatch runs whatever the sync dispatch returned
AlwaysFallsBack(syncOutcome) == TRUE

\* try { return await this.executeSync(input) } catch (error) { ... }
FallsBack(syncOutcome) == ~ syncOutcome.ok

executeAuto(input) ==
    /\ LET first == DispatchFrom(syncAdapters, "sync", input, 1, <<>>)
       IN  dispatch' = Dispatched("executeAuto", input,
                IF FallsBack(first)
                THEN DispatchFrom(asyncAdapters, "async", input, 1, first.trace)
                ELSE first)
    /\ UNCHANGED <<syncAdapters, asyncAdapters, adapterVars, httpVars>>

\* The input the dispatches are made with
DispatchInputs == {1}

InitManager == AdapterIdle /\ ManagerIdle /\ HttpIdle

NextManager ==
    \/ \E p \in Priorities, b \in Behaviours :
            registerSync(NewAdapter(Registered + 1, p, b[1], b[2]))
    \/ \E p \in Priorities, b \in Behaviours :
            registerAsync(NewAdapter(Registered + 1, p, b[1], b[2]))
    \/ \E input \in DispatchInputs : executeSync(input)
    \/ \E input \in DispatchInputs : executeAsync(input)
    \/ \E input \in DispatchInputs : executeAuto(input)

SpecManager == InitManager /\ [][NextManager]_vars

\* ------------------------------------------------- the adapter on its own
Init == (InitAsync \/ InitSync) /\ ManagerIdle /\ HttpIdle

Next ==
    \/ \E input \in NextInputs, throws \in BOOLEAN : ExecuteWithRetry(input, throws)
    \/ \E i \in 1..MaxOps : ExecuteResolves(i)
    \/ \E i \in 1..MaxOps : ExecuteRejects(i)
    \/ \E i \in 1..MaxOps : TimeoutFires(i)
    \/ \E i \in 1..MaxOps, throws \in BOOLEAN : BackoffElapses(i, throws)
    \/ \E throws \in BOOLEAN : Drain(throws)
    \/ \E input \in {1, 2}, outcomes \in [SyncAttempts -> ExecuteOutcomes] :
            SyncExecuteWithRetry(input, outcomes)

Spec == Init /\ [][Next]_vars

\* The asynchronous adapter under fair scheduling: a scheduled drain
\* callback runs, a backoff timer fires, and an attempt that is out comes to
\* an end (execute settles, or the timeout wins the race).
AsyncGivenLive ==
    { Field("retries", r) @@ Field("concurrency", c) @@ Field("queueSize", q)
        @@ Field("timeout", t) :
        r \in {{2}, {-1}}, c \in {{1}, {2}}, q \in {{2}}, t \in {{}, {0}} }

InitLive ==
    /\ kind = "async"
    /\ config \in {AsyncConstructor(g) : g \in AsyncGivenLive}
    /\ executionQueue = <<>>
    /\ activeExecutions = 0
    /\ ops = <<>>
    /\ pendingDrains = 0
    /\ syncCall = NoSyncCall
    /\ observe = FALSE
    /\ ManagerIdle
    /\ HttpIdle

NextLive ==
    \/ \E input \in NextInputs, throws \in BOOLEAN : ExecuteWithRetry(input, throws)
    \/ \E i \in 1..MaxOps : ExecuteResolves(i)
    \/ \E i \in 1..MaxOps : ExecuteRejects(i)
    \/ \E i \in 1..MaxOps : TimeoutFires(i)
    \/ \E i \in 1..MaxOps, throws \in BOOLEAN : BackoffElapses(i, throws)
    \/ \E throws \in BOOLEAN : Drain(throws)

Fairness ==
    /\ WF_vars(\E throws \in BOOLEAN : Drain(throws))
    /\ \A i \in 1..MaxOps :
        /\ WF_vars(\E throws \in BOOLEAN : BackoffElapses(i, throws))
        /\ WF_vars(ExecuteResolves(i) \/ ExecuteRejects(i) \/ TimeoutFires(i))

SpecLive == InitLive /\ [][NextLive]_vars /\ Fairness

\* The asynchronous adapter with the execute promises followed beyond the
\* timeout race
AsyncGivenBackground ==
    { Field("retries", r) @@ Field("concurrency", c) @@ Field("queueSize", q)
        @@ Field("timeout", t) :
        r \in {{2}}, c \in {{1}, {2}}, q \in {{2}}, t \in {{}, {0}} }

InitBackground ==
    /\ kind = "async"
    /\ config \in {AsyncConstructor(g) : g \in AsyncGivenBackground}
    /\ executionQueue = <<>>
    /\ activeExecutions = 0
    /\ ops = <<>>
    /\ pendingDrains = 0
    /\ syncCall = NoSyncCall
    /\ observe = TRUE
    /\ ManagerIdle
    /\ HttpIdle

NextBackground ==
    \/ \E input \in NextInputs, throws \in BOOLEAN : ExecuteWithRetry(input, throws)
    \/ \E i \in 1..MaxOps : ExecuteResolves(i)
    \/ \E i \in 1..MaxOps : ExecuteRejects(i)
    \/ \E i \in 1..MaxOps : TimeoutFires(i)
    \/ \E i \in 1..MaxOps : AbandonedSettles(i)
    \/ \E i \in 1..MaxOps, throws \in BOOLEAN : BackoffElapses(i, throws)
    \/ \E throws \in BOOLEAN : Drain(throws)

SpecBackground == InitBackground /\ [][NextBackground]_vars

\* ------------------------------------------------------------------ claims
Admitted == {i \in DOMAIN ops : ops[i].admitted}
Settled(op) == op.st \in {"resolved", "rejected"}
InQueue(i) == \E n \in DOMAIN executionQueue : executionQueue[n] = i

\* C1: the activeExecutions counter of an async adapter never exceeds its
\* concurrency limit, whatever the interleaving of submissions, attempt
\* outcomes, timeouts and backoff sleeps.
C1_ActiveWithinLimit ==
    kind = "async" => activeExecutions <= ConcurrencyLimit

\* Every slot is taken (one holder sleeps in its backoff) and a call waits.
C1_Witness ==
    /\ kind = "async"
    /\ ConcurrencyLimit = 2
    /\ activeExecutions = 2
    /\ executionQueue # <<>>
    /\ \E i \in DOMAIN ops : ops[i].st = "backoff"
    /\ \E i \in DOMAIN ops : ops[i].st = "running"

\* The part of C2 that every state satisfies: the queue is within its
\* capacity, and a call that was not admitted is rejected with the capacity
\* error, is not in the queue and never executed.
C2_QueueBounded ==
    kind = "async" =>
        /\ Len(executionQueue) <= QueueCapacity
        /\ \A i \in DOMAIN ops :
              ~ ops[i].admitted =>
                  /\ ops[i].st = "rejected"
                  /\ ops[i].result = QueueFull
                  /\ ops[i].execs = 0
                  /\ ~ InQueue(i)

\* The part of C2 about the submitting turn: a call made while the queue
\* length is >= the capacity is rejected in that turn and changes nothing
\* else.
C2_RejectedInTurn ==
    (kind = "async" /\ Len(ops') = Len(ops) + 1 /\ Len(executionQueue) >= QueueCapacity)
        => /\ ops' = Append(ops, ops'[Len(ops')])
           /\ ops'[Len(ops')].st = "rejected"
           /\ ops'[Len(ops')].result = QueueFull
           /\ ~ ops'[Len(ops')].admitted
           /\ UNCHANGED <<executionQueue, activeExecutions, pendingDrains>>

\* C2: the queue never holds more entries than its capacity; a call made
\* while the queue is full is rejected in the same turn with the capacity
\* error, is never enqueued or executed, and leaves the queue and
\* activeExecutions unchanged.
C2_QueueCapacity == [] C2_QueueBounded /\ [][C2_RejectedInTurn]_adapterVars

\* A call was turned away from a full queue.
C2_Witness ==
    /\ kind = "async"
    /\ Len(executionQueue) = QueueCapacity
    /\ \E i \in DOMAIN ops : ~ ops[i].admitted /\ ops[i].result = QueueFull

\* The error the latest failed attempt of op raised
LatestAttemptError(op) ==
    IF op.lastOutcome = "timeout"
    THEN RequestTimeout(op.input, op.failures - 1)
    ELSE ExecuteError(op.input, op.failures - 1)

C3_Async ==
    \A i \in Admitted :
        LET op == ops[i] IN
        /\ op.execs <= config.retries
        /\ op.st = "rejected" =>
              /\ op.execs = config.retries
              /\ op.failures = config.retries
              /\ op.result.name = "AsyncAdapterError"
              /\ op.result.message = "failed after attempts"
              /\ op.result.originalError = LatestAttemptError(op)
              /\ op.result.input = op.input
        /\ op.st = "resolved" =>
              /\ op.execs = op.failures + 1
              /\ op.result = [name |-> "Result", input |-> op.input, id |-> op.failures]

\* Whether execute's k-th call (1-based) of the sync call makes the attempt fail
SyncAttemptFails(k) ==
    LET o == syncCall.outcomes[k]
    IN  ~ o.returns \/ (config.maxExecutionTime # 0 /\ o.time > config.maxExecutionTime)

C3_Sync ==
    syncCall.called =>
        LET n == config.retries
            good == {k \in 1..n : ~ SyncAttemptFails(k)}
            out == syncCall.outcome
        IN  IF good = {}
            THEN /\ out.threw
                 /\ out.execs = n
                 /\ out.value.name = "SyncAdapterError"
                 /\ out.value.message = "failed after attempts"
                 /\ out.value.input = syncCall.input
                 /\ out.value.originalError.id = n - 1
                 /\ out.value.originalError.input = syncCall.input
                 /\ out.value.originalError.name =
                        (IF syncCall.outcomes[n].returns THEN "SyncAdapterError" ELSE "Error")
            ELSE LET k == CHOOSE k \in good : \A j \in good : k <= j
                 IN  /\ ~ out.threw
                     /\ out.execs = k
                     /\ out.value = [name |-> "Result", input |-> syncCall.input, id |-> k - 1]

\* C3: with retries = N >= 1, an admitted call whose attempts all fail
\* invokes execute exactly N times and then fails with the retries-exhausted
\* error wrapping the N-th attempt's error and the original input; if attempt
\* k <= N succeeds, execute is invoked exactly k times and that attempt's
\* result is returned. Sync and async adapters alike.
C3_RetriesExhausted ==
    config.retries >= 1 =>
        /\ kind = "async" => C3_Async
        /\ kind = "sync" => C3_Sync

\* An async call exhausted three attempts, the last one lost to the timeout
\* after an earlier attempt was rejected by execute.
C3_Witness ==
    /\ kind = "async"
    /\ config.retries = 3
    /\ \E i \in Admitted :
          /\ ops[i].st = "rejected"
          /\ ops[i].execs = 3
          /\ ops[i].lastOutcome = "timeout"
          /\ ops[i].result.originalError = RequestTimeout(ops[i].input, 2)
    /\ \E i \in Admitted : ops[i].st = "resolved" /\ ops[i].execs = 2

\* C4 as claimed: whatever retries is configured to, a call performs at
\* least one attempt and at most max(1, retries), and when its attempts fail
\* the caller receives the wrapped retries-exhausted error.
C4_AtLeastOneAttempt ==
    LET budget == IF config.retries > 1 THEN config.retries ELSE 1 IN
    /\ kind = "async" =>
          \A i \in Admitted :
              /\ ops[i].execs <= budget
              /\ ops[i].st \in {"resolved", "rejected"} => ops[i].execs >= 1
              /\ ops[i].st = "rejected" =>
                    /\ ops[i].result.name = "AsyncAdapterError"
                    /\ ops[i].result.originalError # Nil
    /\ (kind = "sync" /\ syncCall.called) =>
          /\ syncCall.outcome.execs >= 1
          /\ syncCall.outcome.execs <= budget
          /\ syncCall.outcome.threw =>
                /\ syncCall.outcome.value.name = "SyncAdapterError"
                /\ syncCall.outcome.value.originalError # Nil

\* C5: the delay slept after failed attempt k (0-based) that is not the
\* last one is 1000 * 2^k ms (exponential) or 1000 * (k + 1) ms (linear); the
\* next attempt starts only after it, and no delay follows the last attempt.
C5_BackoffDelays ==
    kind = "async" =>
        \A i \in Admitted :
            LET op == ops[i] IN
            /\ \A j \in DOMAIN op.sleeps :
                  op.sleeps[j] = IF config.backoff = "exponential"
                                 THEN 1000 * 2^(j - 1)
                                 ELSE 1000 * j
            /\ Len(op.sleeps) =
                  IF op.st = "rejected" /\ op.failures > 0 THEN op.failures - 1 ELSE op.failures
            /\ op.st = "backoff" => op.execs = Len(op.sleeps)
            /\ op.st = "running" => op.execs = Len(op.sleeps) + 1

\* A call slept 1000 ms and 2000 ms between its three attempts and then
\* failed for good without a third sleep.
C5_Witness ==
    /\ kind = "async"
    /\ config.backoff = "exponential"
    /\ \E i \in Admitted :
          /\ ops[i].st = "rejected"
          /\ ops[i].failures = 3
          /\ ops[i].sleeps = <<1000, 2000>>

\* The priority an adapter is configured with (1 when the caller set none)
ConfiguredPriority(a) == a.config.priority

\* Descending configured priority, equal priorities in registration order
InPriorityOrder(registry) ==
    \A i, j \in DOMAIN registry :
        i < j =>
            \/ ConfiguredPriority(registry[i]) > ConfiguredPriority(registry[j])
            \/ /\ ConfiguredPriority(registry[i]) = ConfiguredPriority(registry[j])
               /\ registry[i].id < registry[j].id

\* C6 as claimed: after any sequence of registrations each registry is in
\* descending order of the configured priority (any integer, 1 when unset),
\* adapters of equal priority in registration order.
C6_RegistrySorted == InPriorityOrder(syncAdapters) /\ InPriorityOrder(asyncAdapters)

\* The places of the adapters of a registry that accept the input and succeed
Winners(registry) ==
    {k \in DOMAIN registry : registry[k].canHandle = "true" /\ registry[k].succeeds}

First(S) == CHOOSE k \in S : \A j \in S : k <= j

\* The adapters a dispatch over registry visits: up to the first winner
Visited(registry) ==
    IF Winners(registry) = {} THEN registry ELSE SubSeq(registry, 1, First(Winners(registry)))

\* The calls of one mode a dispatch made on adapters, in order
CallsOf(trace, mode) == SelectSeq(trace, LAMBDA e : e.mode = mode)

\* The calls a dispatch over registry must make: each visited adapter is
\* probed, in registry order, and executed when it accepts
RECURSIVE ExpectedCalls(_, _)
ExpectedCalls(visited, mode) ==
    IF visited = <<>>
    THEN <<>>
    ELSE LET a == Head(visited)
         IN  <<[what |-> "canHandle", mode |-> mode, id |-> a.id]>>
             \o (IF a.canHandle = "true"
                 THEN <<[what |-> "execute", mode |-> mode, id |-> a.id]>>
                 ELSE <<>>)
             \o ExpectedCalls(Tail(visited), mode)

\* d is what a dispatch of d.input over registry has to deliver
DeliversFirstWinner(d, registry, mode) ==
    /\ CallsOf(d.trace, mode) = ExpectedCalls(Visited(registry), mode)
    /\ IF Winners(registry) = {}
       THEN /\ ~ d.ok
            /\ d.value.name = "AdapterError"
            /\ d.value.adapterType = mode
            /\ d.value.input = d.input
       ELSE /\ d.ok
            /\ d.value = [name |-> "Result", by |-> registry[First(Winners(registry))].id,
                          input |-> d.input]

C7_Step ==
    /\ (dispatch' # dispatch /\ dispatch'.entry = "executeSync")
          => /\ DeliversFirstWinner(dispatch', syncAdapters, "sync")
             /\ CallsOf(dispatch'.trace, "async") = <<>>
    /\ (dispatch' # dispatch /\ dispatch'.entry = "executeAsync")
          => /\ DeliversFirstWinner(dispatch', asyncAdapters, "async")
             /\ CallsOf(dispatch'.trace, "sync") = <<>>

\* C7: executeSync (executeAsync) returns the result of the first adapter
\* in registry order that accepts the input and whose execution succeeds;
\* adapters that decline, whose canHandle throws or whose execution fails
\* are skipped; with no such adapter the call fails with the
\* no-suitable-adapter error tagged with the mode and carrying the input.
C7_FirstCapableAdapter == [][C7_Step]_vars

\* executeSync skipped an adapter whose canHandle throws and one whose
\* execution throws, and returned the third adapter's result.
C7_Witness ==
    /\ Len(syncAdapters) = 3
    /\ syncAdapters[1].canHandle = "throws"
    /\ syncAdapters[2].canHandle = "true" /\ ~ syncAdapters[2].succeeds
    /\ dispatch.entry = "executeSync"
    /\ dispatch.ok
    /\ dispatch.value.by = syncAdapters[3].id
    /\ Len(dispatch.trace) = 5

\* In a trace no call on a sync adapter follows a call on an async adapter
SyncBeforeAsync(trace) ==
    \A i, j \in DOMAIN trace :
        (trace[i].mode = "async" /\ trace[j].mode = "sync") => j < i

C8_Step ==
    (dispatch' # dispatch /\ dispatch'.entry = "executeAuto") =>
        LET d == dispatch' IN
        /\ SyncBeforeAsync(d.trace)
        /\ CallsOf(d.trace, "sync") = ExpectedCalls(Visited(syncAdapters), "sync")
        /\ IF Winners(syncAdapters) # {}
           THEN /\ CallsOf(d.trace, "async") = <<>>
                /\ d.ok
                /\ d.value.by = syncAdapters[First(Winners(syncAdapters))].id
           ELSE DeliversFirstWinner(d, asyncAdapters, "async")

\* C8: executeAuto runs the whole sync dispatch first and touches an async
\* adapter only after the sync dispatch failed in total; when a sync adapter
\* succeeds no async adapter is touched; when both dispatches fail the
\* caller gets the async dispatch's failure.
C8_SyncThenAsync == [][C8_Step]_vars

\* executeAuto: the sync adapter accepted and failed, the async registry
\* was tried next and its second adapter delivered.
C8_Witness ==
    /\ Len(syncAdapters) = 1
    /\ Len(asyncAdapters) = 2
    /\ syncAdapters[1].canHandle = "true"
    /\ dispatch.entry = "executeAuto"
    /\ dispatch.ok
    /\ dispatch.value.by = asyncAdapters[2].id
    /\ Len(dispatch.trace) >= 4
    /\ dispatch.trace[2] = [what |-> "execute", mode |-> "sync", id |-> syncAdapters[1].id]

\* s without its trailing (leading) slashes
RECURSIVE StripTrailingSlashes(_)
StripTrailingSlashes(s) ==
    IF s # <<>> /\ s[Len(s)] = "/" THEN StripTrailingSlashes(SubSeq(s, 1, Len(s) - 1)) ELSE s
RECURSIVE StripLeadingSlashes(_)
StripLeadingSlashes(s) ==
    IF s # <<>> /\ Head(s) = "/" THEN StripLeadingSlashes(Tail(s)) ELSE s

IsAbsolute(url) ==
    \/ (Len(url) >= 7 /\ SubSeq(url, 1, 7) = <<"h", "t", "t", "p", ":", "/", "/">>)
    \/ (Len(url) >= 8 /\ SubSeq(url, 1, 8) = <<"h", "t", "t", "p", "s", ":", "/", "/">>)

\* The url and the base URL a mergeConfig call was made with
MergedUrl == IF "url" \in DOMAIN merged.config THEN merged.config.url ELSE <<>>
MergedBase ==
    IF "baseURL" \in DOMAIN merged.config
    THEN merged.config.baseURL
    ELSE IF "baseURL" \in DOMAIN defaultConfig THEN defaultConfig.baseURL ELSE <<>>

\* C9 as claimed: an absolute target URL is used unchanged; a relative one
\* is joined to the base URL with exactly one slash between base and path,
\* however many slashes the base ends with and the path starts with.
C9_UrlResolution ==
    merged.called =>
        IF IsAbsolute(MergedUrl)
        THEN merged.out.url = MergedUrl
        ELSE MergedBase # <<>> =>
                merged.out.url =
                    StripTrailingSlashes(MergedBase) \o <<"/">> \o StripLeadingSlashes(MergedUrl)

\* The validator in force for the call: the request's, else the client's
ValidatorInForce ==
    IF "validateStatus" \in DOMAIN call.given
    THEN call.given.validateStatus
    ELSE defaultConfig.validateStatus
StatusAccepted(status) ==
    IF ValidatorInForce = "default" THEN 200 <= status /\ status <= 299 ELSE status < 500

\* fetch answered the last attempt with a status the validator rejects
StatusRejected ==
    /\ call # NoCall
    /\ call.fetched # Nil
    /\ call.fetched.kind = "response"
    /\ ~ StatusAccepted(call.fetched.status)

ParsedBody ==
    [parsedAs |-> IF call.fetched.contentType = "application/json" THEN "json"
                  ELSE IF call.fetched.contentType = "text/plain" THEN "text" ELSE "blob"]

\* makeRequest raised REQUEST_FAILED with the status and the parsed body
RaisedRequestFailed ==
    /\ call.made.threw
    /\ call.made.value.name = "HttpError"
    /\ call.made.value.code = {"REQUEST_FAILED"}
    /\ call.made.value.status = {call.fetched.status}
    /\ \E response \in call.made.value.response :
            response.status = call.fetched.status /\ response.data = ParsedBody

\* The attempt was the last the budget allows
BudgetRanOut == ~ (call.sent.retries # {} /\ \E n \in call.sent.retries : n > 0)

\* The caller got the failure makeRequest raised
CallerReceivesIt == call.stage = "thrown" /\ call.outcome = call.made.value

NoneRecovers == \A k \in 1..Len(errorInterceptors) : errorInterceptors[k] # "recover"
AllPassOn == \A k \in 1..Len(errorInterceptors) : errorInterceptors[k] = "rethrow"

NoThrower(chain) == \A k \in 1..Len(chain) : chain[k] # "throws"

\* The latest pass got a response out of makeRequest
TransportSucceeded == call.made # Nil /\ ~ call.made.threw

\* C11: within one pass the request interceptors are applied in
\* registration order (each gets the output of the one before, makeRequest
\* gets the output of the last), so are the response interceptors, and
\* response interceptors are called only once makeRequest has returned a
\* response whose status the validator accepts.
C11_RegistrationOrder ==
    call # NoCall =>
        /\ call.sent # Nil =>
                MarksOf(call.sent) = MarksOf(call.submitted) \o requestInterceptors
        /\ (call.stage = "returned" /\ TransportSucceeded /\ NoThrower(responseInterceptors)) =>
                /\ MarksOf(call.outcome) = responseInterceptors
                /\ call.outcome.data = call.made.value.data
                /\ call.outcome.status = call.made.value.status
        /\ call.ran.response > 0 =>
                /\ TransportSucceeded
                /\ call.fetched.kind = "response"
                /\ StatusAccepted(call.fetched.status)
        /\ (TransportSucceeded /\ responseInterceptors # <<>>) => call.ran.response > 0

\* A registered before B: makeRequest gets A's mark, then B's
C11_Witness ==
    /\ call # NoCall
    /\ requestInterceptors = <<"A", "B">>
    /\ call.stage = "transport"
    /\ call.passes = 1
    /\ MarksOf(call.sent) = <<"A", "B">>

\* C12: admitted calls start executing in arrival order: of two admitted
\* calls, the later one has made its first execute only if the earlier one
\* made its first execute before.
C12_FifoStart ==
    \A a \in Admitted, b \in Admitted :
        (a < b /\ ops[b].startedAt > 0) =>
            (ops[a].startedAt > 0 /\ ops[a].startedAt < ops[b].startedAt)

\* With one slot: the first call has settled, the second, which waited in
\* the queue, has started, and the third still waits.
C12_Witness ==
    /\ kind = "async"
    /\ ConcurrencyLimit = 1
    /\ Len(ops) = 3
    /\ Settled(ops[1])
    /\ ops[2].admitted /\ ops[2].startedAt = 2
    /\ ops[3].admitted /\ InQueue(3)

\* The calls that are inside an attempt: between the activeExecutions++ of
\* an iteration and the activeExecutions-- of its finally block
InAttempt == {i \in DOMAIN ops : ops[i].st \in {"running", "backoff"}}

\* C13: increments and decrements of activeExecutions are paired on every
\* exit of an attempt: the counter is the number of calls inside an attempt,
\* it is never negative, and it is 0 whenever every admitted call has
\* settled.
C13_SlotsPaired ==
    kind = "async" =>
        /\ activeExecutions >= 0
        /\ activeExecutions = Cardinality(InAttempt)
        /\ (\A i \in Admitted : Settled(ops[i])) => activeExecutions = 0

\* Three admitted calls have settled, one resolved, one after a timeout,
\* one after a failing execute, and no slot is held.
C13_Witness ==
    /\ kind = "async"
    /\ Len(ops) = 3
    /\ \A i \in DOMAIN ops : ops[i].admitted /\ Settled(ops[i])
    /\ \E i \in DOMAIN ops : ops[i].lastOutcome = "ok"
    /\ \E i \in DOMAIN ops : ops[i].lastOutcome = "timeout"
    /\ \E i \in DOMAIN ops : ops[i].lastOutcome = "fail"
    /\ activeExecutions = 0

IsAdmitted(i) == i \in DOMAIN ops /\ ops[i].admitted
HasStarted(i) == IsAdmitted(i) /\ ops[i].st \notin {"queued", "polling"}
HasSettled(i) == IsAdmitted(i) /\ Settled(ops[i])
SettledCount == Cardinality({i \in Admitted : Settled(ops[i])})

\* Every call that settles in a step schedules one drain callback, and a
\* drain callback that runs is one less
DrainAfterCompletion ==
    IF \E throws \in BOOLEAN : Drain(throws)
    THEN pendingDrains' = pendingDrains - 1 + (SettledCount' - SettledCount)
    ELSE pendingDrains' = pendingDrains + (SettledCount' - SettledCount)

\* C14: under fair scheduling, with every attempt coming to an end, every
\* admitted call eventually leaves the queue and starts, and its promise
\* eventually settles; every completion, whatever its outcome, schedules a
\* drain.
C14_QueueLiveness ==
    /\ \A i \in 1..MaxOps : IsAdmitted(i) ~> HasStarted(i)
    /\ \A i \in 1..MaxOps : IsAdmitted(i) ~> HasSettled(i)
    /\ [][DrainAfterCompletion]_vars

\* A call that waited in the queue behind a call whose last attempt failed
\* has started and settled.
C14_Witness ==
    /\ kind = "async"
    /\ ConcurrencyLimit = 1
    /\ Len(ops) >= 2
    /\ HasSettled(1) /\ ops[1].st = "rejected" /\ ops[1].failures >= 2
    /\ HasSettled(2) /\ ops[2].startedAt = 2

\* The retry budget the latest pass ran with: the retries of its merged
\* config, 0 when there are none
PassBudget ==
    LET budget == mergeConfig(call.submitted).retries
    IN  IF budget = {} THEN 0 ELSE CHOOSE n \in budget : TRUE

\* The latest pass failed and no error interceptor made up for it
UnrecoveredFailure ==
    /\ call # NoCall
    /\ call.failure # Nil
    /\ call.stage # "returned"

\* C15 as claimed: a failure raised at any stage that no error interceptor
\* recovers leads to a resubmission, with the budget one less, exactly when
\* the budget of the request is above 0, and reaches the caller otherwise.
C15_RetryRule ==
    UnrecoveredFailure =>
        IF PassBudget > 0
        THEN call.stage = "sleeping" /\ call.retryConfig.retries = {PassBudget - 1}
        ELSE call.stage = "thrown"

\* C16 as claimed: the sleep before the resubmission that follows the j-th
\* failed attempt of a request is 1000 * 2^j ms, whatever the budget of the
\* request and the default budget of the client.
C16_RetryDelay ==
    (call # NoCall /\ call.stage = "sleeping") =>
        call.delay = 1000 * (2 ^ call.passes)

\* The budget R the request runs with: the retries of its merged config
RequestBudget ==
    LET budget == mergeConfig(call.given).retries
    IN  IF budget = {} THEN 0 ELSE CHOOSE n \in budget : TRUE

\* A request makes at most R + 1 fetch calls
AtMostBudgetPlusOne == call # NoCall => call.attempts <= RequestBudget + 1

\* The failure of the transport reached the caller
TransportFailureSurfaced ==
    /\ call # NoCall
    /\ call.stage = "thrown"
    /\ call.failedAt = "makeRequest"
    /\ call.made # Nil

\* C17 as claimed: a request with budget R makes at most R + 1 transport
\* attempts, and when the transport fails every time and no error
\* interceptor recovers it has made exactly R + 1 when the failure reaches
\* the caller.
C17_AttemptsBounded ==
    /\ AtMostBudgetPlusOne
    /\ (TransportFailureSurfaced /\ NoneRecovers) => call.attempts = RequestBudget + 1

\* The first error interceptor that returns a response, 0 if none does
FirstRecovering ==
    LET recovering == {k \in 1..Len(errorInterceptors) : errorInterceptors[k] = "recover"}
    IN  IF recovering = {} THEN 0 ELSE CHOOSE k \in recovering : \A j \in recovering : k <= j

\* What error interceptor k raises when it is given error
RaisedBy(k, error) ==
    IF errorInterceptors[k] = "replace"
    THEN [name |-> "Error", message |-> "replaced"]
    ELSE error

\* The failure after the last error interceptor has raised
CurrentFailure ==
    IF errorInterceptors = <<>>
    THEN call.failure
    ELSE RaisedBy(Len(errorInterceptors), call.offered[Len(call.offered)])

CarriesBudget(error) ==
    /\ "config" \in DOMAIN error
    /\ "retries" \in DOMAIN error.config
    /\ \E n \in error.config.retries : n > 0

\* C18: on a failure the error interceptors are given the current failure
\* in registration order; the first that returns a response ends the
\* request with that response, the later ones are not called and nothing
\* is retried; what an interceptor raises is what the next one is given,
\* and what the last one raised is what the retry decision reads and what
\* the caller gets.
C18_ErrorInterceptors ==
    (call # NoCall /\ call.failure # Nil) =>
        LET invoked == IF FirstRecovering = 0 THEN Len(errorInterceptors) ELSE FirstRecovering
        IN  /\ Len(call.offered) = invoked
            /\ invoked >= 1 => call.offered[1] = call.failure
            /\ \A k \in 1..(invoked - 1) : call.offered[k + 1] = RaisedBy(k, call.offered[k])
            /\ IF FirstRecovering # 0
               THEN /\ call.stage = "returned"
                    /\ call.outcome = [data |-> [parsedAs |-> "substitute"], status |-> 200]
               ELSE IF CarriesBudget(CurrentFailure)
                    THEN /\ call.stage = "sleeping"
                         /\ \A key \in DOMAIN CurrentFailure.config \ {"retries"} :
                                call.retryConfig[key] = CurrentFailure.config[key]
                    ELSE /\ call.stage = "thrown"
                         /\ call.outcome = CurrentFailure

\* A failed fetch: the first interceptor raises an error of its own, the
\* second is given that error and returns a response, which the caller gets.
C18_Witness ==
    /\ call # NoCall
    /\ errorInterceptors = <<"replace", "recover">>
    /\ call.failure # Nil
    /\ call.failure.name = "HttpError"
    /\ Len(call.offered) = 2
    /\ call.offered[2].message = "replaced"
    /\ call.stage = "returned"

ThroughExecute == call # NoCall /\ call.options # Nil

\* The request validator is supplied and rejects the data of the call
RequestValidatorRejects ==
    /\ "requestValidation" \in DOMAIN call.options
    /\ call.options.requestValidation = "none"

\* The response validator is supplied and rejects the body request returned
ResponseValidatorRejects ==
    /\ call.stage = "returned"
    /\ "responseValidation" \in DOMAIN call.options
    /\ call.options.responseValidation = "none"

ValidationFailure(completion) ==
    /\ completion # Nil
    /\ completion.threw
    /\ completion.value.name = "HttpError"
    /\ completion.value.code = {"VALIDATION_FAILED"}

\* C19 as claimed: in execute, a supplied request validator that rejects
\* the data makes the call fail with a VALIDATION_FAILED failure, no
\* transport call made; a supplied response validator that rejects the
\* parsed body makes the call fail with a validation failure; otherwise the
\* parsed body is returned.
C19_ExecuteValidation ==
    ThroughExecute =>
        /\ RequestValidatorRejects =>
                ValidationFailure(call.executed) /\ call.attempts = 0
        /\ (~ RequestValidatorRejects /\ call.executed # Nil) =>
                IF ResponseValidatorRejects
                THEN ValidationFailure(call.executed)
                ELSE call.stage = "returned" =>
                        call.executed = [threw |-> FALSE, value |-> call.outcome.data]

\* The latest pass of the call went to the network with a timeout T set
TimeoutConfigured == call # NoCall /\ call.sent # Nil /\ Truthy(call.sent.timeout)

\* The attempt of the latest pass failed, classified as code
AttemptFailedAs(code) ==
    /\ call.made # Nil
    /\ call.made.threw
    /\ call.made.value.code = {code}

\* fetch rejected, or the body could not be read
TransportFailed ==
    /\ call.fetched # Nil
    /\ \/ call.fetched.kind \in {"abort", "networkError"}
       \/ ~ call.fetched.readable

\* the rejection of fetch is the abort of the timer
CausedByTimer ==
    /\ call.fetched.kind = "abort"
    /\ call.timerFired
    /\ ~ HasSignal(call.sent)

\* C20 as claimed: for a request with a timeout T, with or without a signal
\* of the caller, once T has elapsed without a response the attempt has
\* failed as TIMEOUT, and a transport failure that the timer did not cause
\* is classified NETWORK_ERROR.
C20_TimeoutBinding ==
    TimeoutConfigured =>
        /\ call.timerFired => AttemptFailedAs("TIMEOUT")
        /\ (TransportFailed /\ ~ CausedByTimer) => AttemptFailedAs("NETWORK_ERROR")

\* The execute promises that are out: those an attempt awaits and those
\* that lost the timeout race and go on in the background
AwaitedExecutes == {i \in DOMAIN ops : ops[i].st = "running"}
BackgroundExecutes ==
    UNION {{<<i, n>> : n \in 1..ops[i].abandoned} : i \in DOMAIN ops}
UnsettledExecutes == Cardinality(AwaitedExecutes) + Cardinality(BackgroundExecutes)

\* C21 as claimed: the execute invocations of an async adapter that have
\* started and not settled, those that lost the timeout race included, are
\* at most the concurrency limit in every reachable state.
C21_ExecutesWithinLimit ==
    kind = "async" => UnsettledExecutes <= ConcurrencyLimit

\* The calls that have started their first attempt and have not settled
Underway == {i \in DOMAIN ops : ops[i].startedAt > 0 /\ ~ Settled(ops[i])}

\* A step in which a call starts its first attempt finds a slot that no
\* call underway holds, and no call underway loses its slot in a step
SlotsKeptAcrossAttempts ==
    /\ \A i \in Underway : i \in Underway' \/ Settled(ops'[i])
    /\ \A j \in DOMAIN ops' :
            (ops'[j].startedAt > 0 /\ (j \notin DOMAIN ops \/ ops[j].startedAt = 0)) =>
                Cardinality(Underway) < ConcurrencyLimit

\* C22: a call that has started its first attempt holds one slot until it
\* settles: it is counted in activeExecutions in every state, its backoff
\* sleeps included, and no other call starts on its slot between two of its
\* attempts.
C22_SlotHeldUntilSettled ==
    /\ [](kind = "async" =>
            /\ Underway = InAttempt
            /\ activeExecutions = Cardinality(Underway))
    /\ [][SlotsKeptAcrossAttempts]_vars

\* A call is in its second attempt, after a backoff sleep, and the call
\* admitted behind it still waits in the queue: the only slot was never free.
C22_Witness ==
    /\ kind = "async"
    /\ ConcurrencyLimit = 1
    /\ activeExecutions = 1
    /\ Len(ops) >= 2
    /\ ops[1].st = "running" /\ ops[1].attempt = 1 /\ ops[1].sleeps # <<>>
    /\ InQueue(2)

\* C23: the queue is work-conserving: in every state in which no drain
\* callback of a finished operation is pending, a non-empty queue means
\* that activeExecutions equals the concurrency limit.
C23_WorkConserving ==
    (kind = "async" /\ pendingDrains = 0 /\ executionQueue # <<>>) =>
        activeExecutions = ConcurrencyLimit

\* A call has failed for good, its drain callback has run and started the
\* next call, and a third call waits with no slot free and no drain pending.
C23_Witness ==
    /\ kind = "async"
    /\ pendingDrains = 0
    /\ Len(ops) = 3
    /\ ops[1].st = "rejected" /\ ops[1].admitted /\ ops[1].execs > 0
    /\ ops[2].st = "running"
    /\ executionQueue = <<3>>
    /\ activeExecutions = ConcurrencyLimit

\* What reaches the transport, the retry budget left aside
ObjectField(object, key) == IF key \in DOMAIN object THEN {object[key]} ELSE {}
Descriptor(finalConfig) ==
    [url |-> finalConfig.url, headers |-> finalConfig.headers,
     params |-> ObjectField(finalConfig, "params"),
     data |-> ObjectField(finalConfig, "data")]

\* The call is at the transport again after a retry
Resubmitted == call # NoCall /\ call.stage = "transport" /\ call.attempts > 1

\* C24 as claimed: on every retry resubmission the descriptor that reaches
\* the transport (resolved URL, headers, query parameters, body) is that of
\* the first attempt; merging and intercepting the failed attempt's
\* descriptor again does not change it.
C24_RetrySameDescriptor ==
    Resubmitted => Descriptor(call.sent) = Descriptor(call.first)

\* The config of the call with the keys retries and timeout left out, as a
\* caller of request / get / post leaves them out
WithoutBudgetAndTimeout(requestConfig) ==
    [k \in (DOMAIN requestConfig) \ {"retries", "timeout"} |-> requestConfig[k]]

\* execute was called with neither retries nor timeout among its options
\* and its request is at the transport for the first time
ExecuteLeavesDefaults ==
    /\ ThroughExecute
    /\ "retries" \notin DOMAIN call.options
    /\ "timeout" \notin DOMAIN call.options
    /\ call.sent # Nil
    /\ call.passes = 1

\* C25 as claimed: a request made through execute without retries and
\* timeout options runs with the client's default retry budget and timeout,
\* as the same request does when made through request with those fields
\* absent.
C25_ExecuteUsesDefaults ==
    ExecuteLeavesDefaults =>
        LET plain == mergeConfig(WithoutBudgetAndTimeout(call.given))
        IN  /\ call.sent.retries = plain.retries
            /\ call.sent.timeout = plain.timeout
            /\ plain.retries = defaultConfig.retries
            /\ plain.timeout = defaultConfig.timeout

====
